---- MODULE Spec2Model ----
(***************************************************************************)
(* A model of js/github.js (the GH object): the connection config kept in  *)
(* memory and in localStorage, the status UI, the sync bar with its        *)
(* auto-hide timers, and the asynchronous operations that talk to the      *)
(* GitHub contents API (getFileSHA, commitFile, syncData,                  *)
(* uploadMatchImage, loadRemoteData, testConnection).                      *)
(*                                                                         *)
(* JavaScript strings are sequences of one-character strings, so that      *)
(* trim() is computed.  A localStorage value is a sequence of tokens, each *)
(* token a sequence of strings; JSON.stringify produces the token sequence *)
(* of an object and JSON.parse accepts only well-formed token sequences.   *)
(***************************************************************************)
EXTENDS Integers, Sequences, FiniteSets, TLC

\* ---------------------------------------------------------------------
\* Strings
\* ---------------------------------------------------------------------
RECURSIVE trimStart(_)
trimStart(s) ==
    IF s # <<>> /\ Head(s) = " " THEN trimStart(Tail(s)) ELSE s

RECURSIVE trimEnd(_)
trimEnd(s) ==
    IF s # <<>> /\ s[Len(s)] = " " THEN trimEnd(SubSeq(s, 1, Len(s) - 1)) ELSE s

\* a trim that forgets the trailing whitespace
trimLeadingOnly(s) == trimStart(s)

trim(s) == trimEnd(trimStart(s))

\* the literal 'main'
MainBranch == <<"m", "a", "i", "n">>

\* the strings a caller may pass to save(), or that a stored entry may hold
Strs == { <<>>, <<" ">>, <<"a">>, <<" ", "b", " ">> }

\* ---------------------------------------------------------------------
\* Config values and JSON
\* ---------------------------------------------------------------------
NullConfig ==
    [null |-> TRUE, owner |-> <<>>, repo |-> <<>>, branch |-> <<>>, token |-> <<>>]

MkConfig(o, r, b, t) ==
    [null |-> FALSE, owner |-> o, repo |-> r, branch |-> b, token |-> t]

LBrace == <<"{">>
RBrace == <<"}">>
NullTok == <<"null">>
Key(k) == <<"key", k>>

\* JSON.stringify(this.config) for a config object
JSONstringify(c) ==
    << LBrace, Key("owner"), c.owner, Key("repo"), c.repo,
       Key("branch"), c.branch, Key("token"), c.token, RBrace >>

\* JSON.parse(raw): ok = FALSE stands for the SyntaxError it throws
JSONparse(raw) ==
    IF raw = << NullTok >>
    THEN [ok |-> TRUE, val |-> NullConfig]
    ELSE IF /\ Len(raw) = 10
            /\ raw[1] = LBrace /\ raw[10] = RBrace
            /\ raw[2] = Key("owner") /\ raw[4] = Key("repo")
            /\ raw[6] = Key("branch") /\ raw[8] = Key("token")
         THEN [ok |-> TRUE, val |-> MkConfig(raw[3], raw[5], raw[7], raw[9])]
         ELSE [ok |-> FALSE, val |-> NullConfig]

\* the localStorage entry 'eafc_gh_config'
NoEntry == [present |-> FALSE, raw |-> <<>>]
Entry(raw) == [present |-> TRUE, raw |-> raw]

\* entries that are not valid JSON text
MalformedRaws == { << LBrace >>, << LBrace, Key("owner"), <<"a">> >> }

\* what the entry may hold when the page is opened
StoredConfigs == { MkConfig(o, r, b, t) : o \in Strs, r \in Strs, b \in Strs, t \in Strs }

AnyEntry ==
    {NoEntry} \cup { Entry(r) : r \in {<<>>, << NullTok >>} \cup MalformedRaws }
              \cup { Entry(JSONstringify(c)) : c \in StoredConfigs }

\* ---------------------------------------------------------------------
\* Bounds
\* ---------------------------------------------------------------------
\* number of invocations of the asynchronous operations in one behaviour
MaxInvocations == 2

\* number of invocations that may be in flight at the same time
MaxSlots == 2

VARIABLES
    config,     \* GH.config
    storage,    \* localStorage entry 'eafc_gh_config'
    statusUI,   \* the status dot / label written by updateStatusUI
    lastOp,     \* the last completed call of load / save / disconnect, and
                \* the name of the one completed before it
    calls,      \* per slot, the latest invocation of an async operation
    started,    \* number of invocations made so far
    store,      \* the remote store: revision of each file, 0 = no such file
    bar,        \* the class list of the #sync-bar element
    timers      \* pending setTimeout callbacks armed by hideSyncBar

cfgVars == <<config, storage, statusUI, lastOp>>
netVars == <<calls, started, store, bar, timers>>
vars == <<config, storage, statusUI, lastOp, calls, started, store, bar, timers>>

\* an isConnected that only checks that a config object exists
isConnectedAnyConfig(c) == ~c.null

isConnected(c) ==
    /\ ~c.null
    /\ c.owner # <<>>
    /\ c.repo # <<>>
    /\ c.token # <<>>

\* the dot class and label that updateStatusUI leaves for config c
updateStatusUI(c) ==
    IF isConnected(c)
    THEN [dot |-> "status-github", owner |-> c.owner, repo |-> c.repo]
    ELSE [dot |-> "status-local", owner |-> <<>>, repo |-> <<>>]

Op(name, o, r, b, t, ret, threw, after) ==
    [name |-> name, owner |-> o, repo |-> r, branch |-> b, token |-> t,
     ret |-> ret, threw |-> threw, after |-> after]

NoOp == Op("none", <<>>, <<>>, <<>>, <<>>, FALSE, FALSE, "")

\* a completed load() also records which call completed before it
LoadOp(ret, threw) == Op("load", <<>>, <<>>, <<>>, <<>>, ret, threw, lastOp.name)

load ==
    /\ UNCHANGED <<storage, netVars>>
    /\ IF ~storage.present \/ storage.raw = <<>>
       THEN /\ config' = NullConfig
            /\ statusUI' = updateStatusUI(NullConfig)
            /\ lastOp' = LoadOp(FALSE, FALSE)
       ELSE LET p == JSONparse(storage.raw) IN
            IF p.ok
            THEN /\ config' = p.val
                 /\ statusUI' = updateStatusUI(p.val)
                 /\ lastOp' = LoadOp(~p.val.null, FALSE)
            ELSE /\ UNCHANGED <<config, statusUI>>
                 /\ lastOp' = LoadOp(FALSE, TRUE)

save(owner, repo, branch, token) ==
    LET c == MkConfig(trim(owner), trim(repo),
                      IF trim(branch) # <<>> THEN trim(branch) ELSE MainBranch,
                      trim(token))
    IN /\ UNCHANGED netVars
       /\ config' = c
       /\ storage' = Entry(JSONstringify(c))
       /\ statusUI' = updateStatusUI(c)
       /\ lastOp' = Op("save", owner, repo, branch, token, FALSE, FALSE, "")

disconnect ==
    /\ UNCHANGED netVars
    /\ config' = NullConfig
    /\ storage' = NoEntry
    /\ statusUI' = updateStatusUI(NullConfig)
    /\ lastOp' = Op("disconnect", <<>>, <<>>, <<>>, <<>>, FALSE, FALSE, "")

\* ---------------------------------------------------------------------
\* Sync bar
\* ---------------------------------------------------------------------
\* bar is the class list of #sync-bar
showSyncBar(b) ==
    (b \ {"hidden", "sync-error", "sync-ok"}) \cup {"sync-active"}

hideSyncBar(b, status) ==
    (b \ {"sync-active"}) \cup {IF status = "ok" THEN "sync-ok" ELSE "sync-error"}

\* the callback armed by hideSyncBar: bar.classList.add('hidden')
TimerFire ==
    /\ timers > 0
    /\ timers' = timers - 1
    /\ bar' = bar \cup {"hidden"}
    /\ UNCHANGED <<cfgVars, calls, started, store>>

BeginEv(msg) == [ev |-> "begin", outcome |-> "", msg |-> msg]
EndEv(status, msg) == [ev |-> "end", outcome |-> status, msg |-> msg]

\* ---------------------------------------------------------------------
\* Requests, responses and the remote store
\* ---------------------------------------------------------------------
DataPath == "data/league-data.json"
ImagePath == "match-images/shot.png"
Paths == {DataPath, ImagePath}

\* the arguments save() is called with while operations are running
SaveInputs ==
    { << <<"a">>, <<"a">>, <<>>, <<"a">> >>,
      << <<"a">>, <<" ", "b", " ">>, <<" ", "b", " ">>, <<" ", "b", " ">> >>,
      << <<"a">>, <<" ">>, <<>>, <<"a">> >> }

ConfigA == MkConfig(<<"a">>, <<"a">>, MainBranch, <<"a">>)
ConfigB == MkConfig(<<"a">>, <<"b">>, <<"b">>, <<"b">>)

FileOf(owner, repo, branch, path) ==
    [owner |-> owner, repo |-> repo, branch |-> branch, path |-> path]

\* the files of the repositories that exist on the remote side
Files ==
    { FileOf(c.owner, c.repo, c.branch, p) : c \in {ConfigA, ConfigB}, p \in Paths }

\* fetch(`${apiBase()}/contents/${path}?ref=${branch}`, {headers})
GetReq(c, path) ==
    [method |-> "GET", owner |-> c.owner, repo |-> c.repo, branch |-> c.branch,
     path |-> path, token |-> c.token, hasTag |-> FALSE, tag |-> 0]

\* fetch(`${apiBase()}/contents/${path}`, {method: 'PUT', headers, body});
\* body.branch is this.config.branch
PutReq(c, path, body) ==
    [method |-> "PUT", owner |-> c.owner, repo |-> c.repo, branch |-> c.branch,
     path |-> path, token |-> c.token, hasTag |-> body.hasSha, tag |-> body.sha]

\* fetch(`${apiBase()}`, {headers})
RepoReq(c) ==
    [method |-> "GET", owner |-> c.owner, repo |-> c.repo, branch |-> <<>>,
     path |-> "", token |-> c.token, hasTag |-> FALSE, tag |-> 0]

ReqFile(q) == FileOf(q.owner, q.repo, q.branch, q.path)

\* status 0 stands for a rejected fetch promise (network error)
Resp(status, tag, body) == [status |-> status, tag |-> tag, body |-> body]

NetworkError == Resp(0, 0, "")

\* res.ok
ResOk(r) == r.status >= 200 /\ r.status <= 299

StoreTag(st, f) == IF f \in DOMAIN st THEN st[f] ELSE 0

\* what the content field of a 200 answer to a contents read may decode to
FileBodies == {"snapshot", "jsonnull", "nonobject", "undecodable"}

\* what the store answers to a read of file f; bodies are the contents the
\* reader tells apart
StoreGet(st, f, bodies) ==
    IF StoreTag(st, f) = 0
    THEN { Resp(404, 0, "") }
    ELSE { Resp(200, StoreTag(st, f), b) : b \in bodies }

\* every outcome of a contents read: the store's answer, an auth failure,
\* a 200 whose body has no sha / content field, a 200 whose body is not
\* JSON, or a network error
GetResponses(st, f, bodies) ==
    StoreGet(st, f, bodies)
        \cup { Resp(401, 0, ""), Resp(200, 0, "nofields"), Resp(200, 0, "badjson"),
               NetworkError }

\* what the store answers to a write of file f carrying revision tag sha:
\* created when the file is new and no tag is given, updated when the tag
\* is the current one, rejected otherwise
StorePut(st, f, sha) ==
    IF f \notin DOMAIN st THEN Resp(404, 0, "")
    ELSE IF sha = st[f]
         THEN Resp(IF sha = 0 THEN 201 ELSE 200, st[f] + 1, "")
         ELSE Resp(IF sha = 0 THEN 422 ELSE 409, 0, "")

PutResponses(st, f, sha) ==
    { StorePut(st, f, sha), Resp(401, 0, ""), NetworkError }

\* the store after answering r to a write of f
StoreAfterPut(st, f, r) ==
    IF ResOk(r) THEN [st EXCEPT ![f] = r.tag] ELSE st

\* the answers of the repository identity endpoint
RepoResponses(q) ==
    { Resp(IF \E f \in Files : f.owner = q.owner /\ f.repo = q.repo THEN 200 ELSE 404, 0, ""),
      Resp(401, 0, ""), Resp(500, 0, ""), NetworkError }

\* ---------------------------------------------------------------------
\* Invocations
\* ---------------------------------------------------------------------
NoUrl == FileOf(<<>>, <<>>, <<>>, "")

\* the value an invocation returned
Ret(type, b, n, url, msg) == [type |-> type, b |-> b, n |-> n, url |-> url, msg |-> msg]
NoRet == Ret("none", FALSE, 0, NoUrl, "")
RetUndefined == Ret("undefined", FALSE, 0, NoUrl, "")
RetNull == Ret("null", FALSE, 0, NoUrl, "")
RetBool(b) == Ret("bool", b, 0, NoUrl, "")
RetTag(n) == IF n = 0 THEN RetNull ELSE Ret("tag", FALSE, n, NoUrl, "")
RetUrl(u) == Ret("url", FALSE, 0, u, "")
RetData(body) == Ret("data", FALSE, 0, NoUrl, body)
RetTest(ok, msg) == Ret("test", ok, 0, NoUrl, msg)

IdleCall ==
    [kind |-> "idle", pc |-> "idle", path |-> "", cfg0 |-> NullConfig, sha |-> 0,
     reqs |-> <<>>, resps |-> <<>>, events |-> <<>>, ret |-> NoRet, threw |-> FALSE]

Slots == 1..MaxSlots

\* a slot is free when its invocation has settled; slots fill in order
CanStart(i) ==
    /\ started < MaxInvocations
    /\ calls[i].pc \in {"idle", "done"}
    /\ i > 1 => calls[i - 1].pc # "idle"
    /\ started' = started + 1

\* a fresh invocation; cfg0 records this.config at the call
Started(kind, path, cfg) ==
    [IdleCall EXCEPT !.kind = kind, !.path = path, !.cfg0 = cfg]

Returned(c, ret) == [c EXCEPT !.pc = "done", !.ret = ret]

Thrown(c) == [c EXCEPT !.pc = "done", !.threw = TRUE]

Emitted(c, e) == [c EXCEPT !.events = Append(@, e)]

Requested(c, q, pc) == [c EXCEPT !.reqs = Append(@, q), !.pc = pc]

Responded(c, r) == [c EXCEPT !.resps = Append(@, r)]

\* ---------------------------------------------------------------------
\* getFileSHA and commitFile
\* ---------------------------------------------------------------------
\* the value getFileSHA returns for the answer r to its read (0 = null)
getFileSHAResult(r) ==
    IF r.status = 0 THEN 0                  \* catch
    ELSE IF r.status = 404 THEN 0
    ELSE IF ~ResOk(r) THEN 0
    ELSE IF r.body = "badjson" THEN 0       \* res.json() rejects: catch
    ELSE r.tag                              \* data.sha || null

\* a body that always carries a sha member, also when the lookup gave null
commitBodyAlways(sha) == [hasSha |-> TRUE, sha |-> sha]

\* the sha member of the body commitFile builds: if (sha) body.sha = sha
commitBody(sha) ==
    IF sha # 0 THEN [hasSha |-> TRUE, sha |-> sha] ELSE [hasSha |-> FALSE, sha |-> 0]

\* commitFile up to its first suspension, on a connected config
commitFileBegin(c, cfg, path) == Requested(c, GetReq(cfg, path), "awaitRead")

\* a syncData that reports success whatever commitFile returned
syncDataSettleAlwaysOk(c, outcome) ==
    [call |-> Returned(c, RetUndefined),
     ends |-> IF outcome = "throw"
              THEN << EndEv("error", "Sync failed - check token & repo") >>
              ELSE << EndEv("ok", "League data saved to GitHub") >>]

\* syncData after the awaited commitFile settled with outcome
\* "true", "false" or "throw"
syncDataSettle(c, outcome) ==
    [call |-> Returned(c, RetUndefined),
     ends |-> IF outcome = "throw"
              THEN << EndEv("error", "Sync failed - check token & repo") >>
              ELSE IF outcome = "true"
                   THEN << EndEv("ok", "League data saved to GitHub") >>
                   ELSE << EndEv("error", "Data sync failed") >>]

\* uploadMatchImage after the awaited commitFile settled; cfg is this.config
\* at that moment
uploadMatchImageSettle(c, cfg, outcome) ==
    IF outcome = "true"
    THEN IF cfg.null
         THEN \* this.config.owner throws after hideSyncBar('ok'): catch
              [call |-> Returned(c, RetNull),
               ends |-> << EndEv("ok", "Screenshot saved to GitHub"),
                           EndEv("error", "Image upload failed") >>]
         ELSE [call |-> Returned(c, RetUrl(FileOf(cfg.owner, cfg.repo, cfg.branch, c.path))),
               ends |-> << EndEv("ok", "Screenshot saved to GitHub") >>]
    ELSE [call |-> Returned(c, RetNull),
          ends |-> << EndEv("error", "Image upload failed") >>]

\* a direct call of commitFile settles
commitFileSettle(c, outcome) ==
    [call |-> IF outcome = "throw" THEN Thrown(c) ELSE Returned(c, RetBool(outcome = "true")),
     ends |-> <<>>]

Settle(c, cfg, outcome) ==
    CASE c.kind = "syncData" -> syncDataSettle(c, outcome)
      [] c.kind = "uploadMatchImage" -> uploadMatchImageSettle(c, cfg, outcome)
      [] OTHER -> commitFileSettle(c, outcome)

\* the bar after the hideSyncBar calls for the end events es, in order
RECURSIVE HideAll(_, _)
HideAll(b, es) ==
    IF es = <<>> THEN b
    ELSE HideAll(hideSyncBar(b, Head(es).outcome), Tail(es))

\* the invocation i becomes s.call, its end events are logged and shown
Apply(i, s) ==
    /\ calls' = [calls EXCEPT ![i] = [s.call EXCEPT !.events = @ \o s.ends]]
    /\ bar' = HideAll(bar, s.ends)
    /\ timers' = timers + Len(s.ends)

NoEnds(c) == [call |-> c, ends |-> <<>>]

getFileSHA(i, path) ==
    /\ CanStart(i)
    /\ LET c == Started("getFileSHA", path, config) IN
       IF config.null
       THEN Apply(i, NoEnds(Returned(c, RetNull)))      \* apiBase() throws: catch
       ELSE Apply(i, NoEnds(Requested(c, GetReq(config, path), "awaitRead")))
    /\ UNCHANGED <<cfgVars, store>>

commitFile(i, path) ==
    /\ CanStart(i)
    /\ LET c == Started("commitFile", path, config) IN
       IF ~isConnected(config)
       THEN Apply(i, NoEnds(Returned(c, RetBool(FALSE))))
       ELSE Apply(i, NoEnds(commitFileBegin(c, config, path)))
    /\ UNCHANGED <<cfgVars, store>>

\* the read of getFileSHA is answered with r; getFileSHA returns and, inside
\* commitFile, the body is built and the write is issued
ReadResponse(i) ==
    /\ calls[i].pc = "awaitRead"
    /\ \E r \in GetResponses(store, ReqFile(calls[i].reqs[1]), {"snapshot"}) :
       LET sha == getFileSHAResult(r)
           c == [Responded(calls[i], r) EXCEPT !.sha = sha]
       IN IF c.kind = "getFileSHA"
          THEN Apply(i, NoEnds(Returned(c, RetTag(sha))))
          ELSE IF config.null
               THEN Apply(i, Settle(c, config, "throw"))   \* this.config.branch
               ELSE Apply(i, NoEnds(Requested(c, PutReq(config, c.path, commitBody(sha)),
                                              "awaitWrite")))
    /\ UNCHANGED <<cfgVars, store, started>>

\* the write of commitFile is answered with r
WriteResponse(i) ==
    /\ calls[i].pc = "awaitWrite"
    /\ \E r \in PutResponses(store, ReqFile(calls[i].reqs[2]),
                             IF calls[i].reqs[2].hasTag THEN calls[i].reqs[2].tag ELSE 0) :
       LET q == calls[i].reqs[2]
           c == Responded(calls[i], r)
       IN /\ store' = StoreAfterPut(store, ReqFile(q), r)
          /\ Apply(i, Settle(c, config,
                             IF r.status = 0 THEN "throw"
                             ELSE IF ResOk(r) THEN "true" ELSE "false"))
    /\ UNCHANGED <<cfgVars, started>>

\* ---------------------------------------------------------------------
\* syncData, uploadMatchImage, loadRemoteData, testConnection
\* ---------------------------------------------------------------------
syncData(i) ==
    /\ CanStart(i)
    /\ LET c == Started("syncData", DataPath, config) IN
       IF ~isConnected(config)
       THEN /\ calls' = [calls EXCEPT ![i] = Returned(c, RetUndefined)]
            /\ UNCHANGED bar
       ELSE /\ bar' = showSyncBar(bar)
            /\ calls' = [calls EXCEPT ![i] =
                    commitFileBegin(Emitted(c, BeginEv("Syncing league data...")),
                                    config, DataPath)]
    /\ UNCHANGED <<cfgVars, store, timers>>

uploadMatchImage(i) ==
    /\ CanStart(i)
    /\ LET c == Started("uploadMatchImage", ImagePath, config) IN
       IF ~isConnected(config)
       THEN /\ calls' = [calls EXCEPT ![i] = Returned(c, RetNull)]
            /\ UNCHANGED bar
       ELSE /\ bar' = showSyncBar(bar)
            /\ calls' = [calls EXCEPT ![i] =
                    commitFileBegin(Emitted(c, BeginEv("Uploading match screenshot...")),
                                    config, ImagePath)]
    /\ UNCHANGED <<cfgVars, store, timers>>

loadRemoteData(i) ==
    /\ CanStart(i)
    /\ LET c == Started("loadRemoteData", DataPath, config) IN
       IF ~isConnected(config)
       THEN /\ calls' = [calls EXCEPT ![i] = Returned(c, RetNull)]
            /\ UNCHANGED bar
       ELSE /\ bar' = showSyncBar(bar)
            /\ calls' = [calls EXCEPT ![i] =
                    Requested(Emitted(c, BeginEv("Loading data from GitHub...")),
                              GetReq(config, DataPath), "awaitLoad")]
    /\ UNCHANGED <<cfgVars, store, timers>>

\* a loadRemoteData that reports every status other than 2xx as an error
loadRemoteDataSettleStrict(c, r) ==
    IF r.status = 0 \/ ~ResOk(r) \/ r.body \in {"badjson", "nofields", "undecodable"}
    THEN [call |-> Returned(c, RetNull),
          ends |-> << EndEv("error", "Could not load remote data") >>]
    ELSE [call |-> Returned(c, IF r.body = "jsonnull" THEN RetNull ELSE RetData(r.body)),
          ends |-> << EndEv("ok", "Data loaded from GitHub") >>]

\* loadRemoteData after its read was answered with r
loadRemoteDataSettle(c, r) ==
    IF r.status = 0
    THEN [call |-> Returned(c, RetNull),
          ends |-> << EndEv("error", "Could not load remote data") >>]
    ELSE IF ~ResOk(r)
    THEN [call |-> Returned(c, RetNull),
          ends |-> << EndEv("ok", "No remote data yet - starting fresh") >>]
    ELSE IF r.body \in {"badjson", "nofields", "undecodable"}
    THEN \* res.json(), file.content.replace, atob or JSON.parse throws: catch
         [call |-> Returned(c, RetNull),
          ends |-> << EndEv("error", "Could not load remote data") >>]
    ELSE [call |-> Returned(c, IF r.body = "jsonnull" THEN RetNull ELSE RetData(r.body)),
          ends |-> << EndEv("ok", "Data loaded from GitHub") >>]

LoadResponse(i) ==
    /\ calls[i].pc = "awaitLoad"
    /\ \E r \in GetResponses(store, ReqFile(calls[i].reqs[1]), FileBodies) :
       Apply(i, loadRemoteDataSettle(Responded(calls[i], r), r))
    /\ UNCHANGED <<cfgVars, store, started>>

\* a testConnection that drops the in-memory config when it is called
testConnectionClearing(i) ==
    /\ CanStart(i)
    /\ LET c == Started("testConnection", "", config) IN
       IF ~isConnected(config)
       THEN calls' = [calls EXCEPT ![i] = Returned(c, RetTest(FALSE, "Not configured"))]
       ELSE calls' = [calls EXCEPT ![i] = Requested(c, RepoReq(config), "awaitTest")]
    /\ config' = NullConfig
    /\ UNCHANGED <<storage, statusUI, lastOp, store, bar, timers>>

testConnection(i) ==
    /\ CanStart(i)
    /\ LET c == Started("testConnection", "", config) IN
       IF ~isConnected(config)
       THEN calls' = [calls EXCEPT ![i] = Returned(c, RetTest(FALSE, "Not configured"))]
       ELSE calls' = [calls EXCEPT ![i] = Requested(c, RepoReq(config), "awaitTest")]
    /\ UNCHANGED <<cfgVars, store, bar, timers>>

\* a testConnection that mixes up the 401 and 404 messages
testConnectionResultSwapped(r) ==
    IF r.status = 0 THEN RetTest(FALSE, "Network error")
    ELSE IF r.status = 200 THEN RetTest(TRUE, "Connected!")
    ELSE IF r.status = 401 THEN RetTest(FALSE, "Repo not found")
    ELSE IF r.status = 404 THEN RetTest(FALSE, "Invalid token")
    ELSE RetTest(FALSE, "Error " \o ToString(r.status))

\* the value testConnection returns for the answer r
testConnectionResult(r) ==
    IF r.status = 0 THEN RetTest(FALSE, "Network error")
    ELSE IF r.status = 200 THEN RetTest(TRUE, "Connected!")
    ELSE IF r.status = 401 THEN RetTest(FALSE, "Invalid token")
    ELSE IF r.status = 404 THEN RetTest(FALSE, "Repo not found")
    ELSE RetTest(FALSE, "Error " \o ToString(r.status))

TestResponse(i) ==
    /\ calls[i].pc = "awaitTest"
    /\ \E r \in RepoResponses(calls[i].reqs[1]) :
       Apply(i, NoEnds(Returned(Responded(calls[i], r), testConnectionResult(r))))
    /\ UNCHANGED <<cfgVars, store, started>>

\* ---------------------------------------------------------------------
\* Specifications
\* ---------------------------------------------------------------------
\* the remote store with the snapshot files of the two repositories at
\* revisions ra and rb (0: the file does not exist yet)
InitStore(ra, rb) ==
    [f \in Files |-> IF f.path # DataPath THEN 0
                     ELSE IF f.repo = ConfigA.repo THEN ra ELSE rb]

InitNet ==
    /\ calls = [i \in Slots |-> IdleCall]
    /\ started = 0
    /\ bar = {"hidden"}
    /\ timers = 0

InitCfg ==
    /\ config = NullConfig
    /\ statusUI = [dot |-> "", owner |-> <<>>, repo |-> <<>>]
    /\ lastOp = NoOp

\* a fresh page: nothing stored yet; the snapshot files may exist remotely
Init ==
    /\ InitCfg
    /\ storage = NoEntry
    /\ InitNet
    /\ \E ra \in {0, 1}, rb \in {0, 1} : store = InitStore(ra, rb)

\* the operations are invoked one after another, while the user may save or
\* disconnect at any moment, also while an operation is suspended
Next ==
    \/ \E a \in SaveInputs : save(a[1], a[2], a[3], a[4])
    \/ disconnect
    \/ syncData(1)
    \/ uploadMatchImage(1)
    \/ loadRemoteData(1)
    \/ testConnection(1)
    \/ commitFile(1, DataPath)
    \/ getFileSHA(1, DataPath)
    \/ ReadResponse(1)
    \/ WriteResponse(1)
    \/ LoadResponse(1)
    \/ TestResponse(1)
    \/ TimerFire

Spec == Init /\ [][Next]_vars

\* overlapping commits of the snapshot path on one connected config
NextRace ==
    \/ save(<<"a">>, <<"a">>, <<>>, <<"a">>)
    \/ \E i \in Slots : syncData(i)
    \/ \E i \in Slots : commitFile(i, DataPath)
    \/ \E i \in Slots : ReadResponse(i)
    \/ \E i \in Slots : WriteResponse(i)

SpecRace == Init /\ [][NextRace]_vars

\* the config operations alone, from any content of the stored entry
InitCfgOnly ==
    /\ InitCfg
    /\ storage \in AnyEntry
    /\ InitNet
    /\ store = InitStore(0, 0)

NextCfg ==
    \/ load
    \/ \E o \in Strs, r \in Strs, b \in Strs, t \in Strs : save(o, r, b, t)
    \/ disconnect

SpecCfg == InitCfgOnly /\ [][NextCfg]_vars

\* ---------------------------------------------------------------------
\* Properties
\* ---------------------------------------------------------------------
CommitKinds == {"syncData", "uploadMatchImage", "commitFile"}
SyncKinds == {"syncData", "uploadMatchImage", "loadRemoteData"}

\* the config the invocation was made on had owner, repo and token
ConnectedAtCall(c) ==
    /\ ~c.cfg0.null
    /\ c.cfg0.owner # <<>> /\ c.cfg0.repo # <<>> /\ c.cfg0.token # <<>>

Ends(c) == { k \in DOMAIN c.events : c.events[k].ev = "end" }
Begins(c) == { k \in DOMAIN c.events : c.events[k].ev = "begin" }

\* t is s without its leading and trailing spaces
IsTrimOf(t, s) ==
    /\ t # <<>> => (t[1] # " " /\ t[Len(t)] # " ")
    /\ \E i \in 0..Len(s) : \E j \in i..Len(s) :
          /\ t = SubSeq(s, i + 1, j)
          /\ \A k \in 1..i : s[k] = " "
          /\ \A k \in (j + 1)..Len(s) : s[k] = " "

\* C1: in a commitFile invocation on a connected config, the write carries
\* a revision tag iff the read of the same path returned one, the tag it
\* carries is the one the read returned, and after a "not found" read the
\* write carries none.
C1_WriteCarriesReadTag ==
    \A i \in Slots :
        LET c == calls[i] IN
        (c.kind \in CommitKinds /\ ConnectedAtCall(c) /\ Len(c.reqs) >= 2) =>
            LET r == c.resps[1]
                w == c.reqs[2]
            IN /\ w.method = "PUT" /\ c.reqs[1].method = "GET"
               /\ w.path = c.reqs[1].path
               /\ w.hasTag <=> (c.sha # 0)
               /\ w.hasTag => (w.tag = c.sha /\ r.status = 200 /\ w.tag = r.tag)
               /\ r.status = 404 => ~w.hasTag

\* a write went out carrying the tag its read returned
C1_Witness ==
    \E i \in Slots :
        /\ calls[i].kind = "commitFile"
        /\ Len(calls[i].reqs) = 2
        /\ calls[i].resps[1].status = 200
        /\ calls[i].reqs[2].hasTag /\ calls[i].reqs[2].tag = calls[i].resps[1].tag

\* the store answered the write of invocation c and did not accept it
WriteRejected(c) ==
    /\ Len(c.resps) = 2
    /\ c.resps[2].status # 0
    /\ ~(c.resps[2].status >= 200 /\ c.resps[2].status <= 299)

\* C2: when commits of the same path overlap and the store rejects a write,
\* that invocation returns false and its syncData ends with a failure
\* event, never with a success event.
C2_RejectedWriteIsFailure ==
    \A i \in Slots :
        LET c == calls[i] IN
        (c.kind \in {"syncData", "commitFile"} /\ WriteRejected(c)) =>
            /\ c.pc = "done" /\ ~c.threw
            /\ c.kind = "commitFile" => c.ret = RetBool(FALSE)
            /\ c.kind = "syncData" =>
                  /\ Cardinality(Ends(c)) = 1
                  /\ \A k \in Ends(c) : c.events[k].outcome = "error"

\* two invocations read the same revision, the first one's write was
\* accepted and the later write of a syncData was rejected as stale
C2_Witness ==
    \E i \in Slots : \E j \in Slots \ {i} :
        /\ calls[j].kind = "syncData" /\ calls[j].pc = "done"
        /\ Len(calls[i].resps) = 2 /\ Len(calls[j].resps) = 2
        /\ calls[i].resps[1].status = 200
        /\ calls[j].resps[1] = calls[i].resps[1]
        /\ calls[i].resps[2].status = 200
        /\ calls[j].resps[2].status = 409
        /\ calls[j].reqs[2].tag = calls[i].reqs[2].tag

\* C3: getFileSHA and commitFile turn every network-level error, in the
\* read or in the write, into a null / false result and never raise.
C3_NetworkErrorsBecomeResults ==
    \A i \in Slots :
        LET c == calls[i] IN
        c.kind \in {"getFileSHA", "commitFile"} =>
            /\ (Len(c.resps) >= 1 /\ c.resps[1].status = 0) =>
                  /\ c.sha = 0
                  /\ c.kind = "getFileSHA" => (c.pc = "done" /\ ~c.threw /\ c.ret = RetNull)
            /\ (Len(c.resps) = 2 /\ c.resps[2].status = 0) =>
                  (c.pc = "done" /\ ~c.threw /\ c.ret = RetBool(FALSE))

\* C4: load() never throws; with an absent or malformed stored entry it
\* ends with no config and returns false.
C4_LoadNeverThrows ==
    lastOp.name = "load" =>
        /\ ~lastOp.threw
        /\ (~storage.present \/ ~JSONparse(storage.raw).ok) =>
              (config.null /\ ~lastOp.ret)

\* the operation of invocation c failed: its write was not accepted or not
\* made, or its load got a network error, a status other than 200 and
\* "not found", or a body that is not JSON
OperationFailed(c) ==
    IF c.kind = "loadRemoteData"
    THEN /\ Len(c.resps) = 1
         /\ \/ c.resps[1].status \notin {200, 404}
            \/ c.resps[1].body = "badjson"
    ELSE /\ c.pc = "done"
         /\ ~(Len(c.resps) = 2 /\ c.resps[2].status \in {200, 201})

\* C5: syncData, uploadMatchImage, loadRemoteData and testConnection end by
\* returning a value whatever the store answers or the network does, and a
\* failure of one of the three syncing operations comes with a failure
\* status notification.
C5_FailuresBecomeResultAndNotification ==
    \A i \in Slots :
        LET c == calls[i] IN
        (c.kind \in SyncKinds \cup {"testConnection"} /\ ConnectedAtCall(c)) =>
            /\ ~c.threw
            /\ c.pc = "done" => c.ret # NoRet
            /\ (c.kind \in SyncKinds /\ c.pc = "done" /\ OperationFailed(c)) =>
                  \E k \in Ends(c) : c.events[k].outcome = "error"

\* C6: on a config that is not connected, syncData, uploadMatchImage,
\* loadRemoteData and commitFile issue no request and emit no status event;
\* loadRemoteData and uploadMatchImage return null, commitFile false.
C6_NotConnectedIsNoOp ==
    \A i \in Slots :
        LET c == calls[i] IN
        (c.kind \in SyncKinds \cup {"commitFile"} /\ ~ConnectedAtCall(c)) =>
            /\ c.reqs = <<>> /\ c.events = <<>>
            /\ c.pc = "done" /\ ~c.threw
            /\ c.kind \in {"loadRemoteData", "uploadMatchImage"} => c.ret = RetNull
            /\ c.kind = "commitFile" => c.ret = RetBool(FALSE)
            /\ c.kind = "syncData" => c.ret = RetUndefined

\* uploadMatchImage was called on a config whose repo is empty
C6_Witness ==
    \E i \in Slots :
        /\ calls[i].kind = "uploadMatchImage"
        /\ ~calls[i].cfg0.null /\ calls[i].cfg0.repo = <<>>
        /\ calls[i].pc = "done"

\* C7: after any sequence of save, load and disconnect, from any stored
\* entry, isConnected() is true iff there is a config and its owner, repo
\* and token are all non-empty after trimming.
C7_ConnectedIffTrimmedNonEmpty ==
    isConnected(config) <=>
        /\ ~config.null
        /\ ~IsTrimOf(<<>>, config.owner)
        /\ ~IsTrimOf(<<>>, config.repo)
        /\ ~IsTrimOf(<<>>, config.token)

\* C8: save(owner, repo, branch, token) followed by load() yields the
\* config of the trimmed inputs, an empty branch replaced by 'main';
\* disconnect() followed by load() yields no config and load() returns false.
C8_SaveLoadRoundTrip ==
    [][ /\ (lastOp.name = "save" /\ lastOp'.name = "load") =>
              /\ ~lastOp'.threw /\ lastOp'.ret
              /\ ~config'.null
              /\ IsTrimOf(config'.owner, lastOp.owner)
              /\ IsTrimOf(config'.repo, lastOp.repo)
              /\ IsTrimOf(config'.token, lastOp.token)
              /\ IF IsTrimOf(<<>>, lastOp.branch)
                 THEN config'.branch = <<"m", "a", "i", "n">>
                 ELSE IsTrimOf(config'.branch, lastOp.branch)
        /\ (lastOp.name = "disconnect" /\ lastOp'.name = "load") =>
              (~lastOp'.threw /\ ~lastOp'.ret /\ config'.null)
      ]_vars

\* load() ran right after a save() whose owner and token were padded and
\* whose branch was blank
C8_Witness ==
    /\ lastOp.name = "load" /\ lastOp.after = "save"
    /\ config = MkConfig(<<"b">>, <<"a">>, <<"m", "a", "i", "n">>, <<"b">>)

\* C9: a connected syncData issues exactly one read of the snapshot path
\* and then, after the read completed, exactly one write of the snapshot
\* path, and nothing else, whatever the store answers.
C9_OneReadThenOneWrite ==
    \A i \in Slots :
        LET c == calls[i] IN
        (c.kind = "syncData" /\ ConnectedAtCall(c)) =>
            /\ Len(c.reqs) \in {1, 2}
            /\ c.reqs[1].method = "GET" /\ c.reqs[1].path = DataPath
            /\ Len(c.reqs) = 2 =>
                  /\ c.reqs[2].method = "PUT" /\ c.reqs[2].path = DataPath
                  /\ Len(c.resps) >= 1
            /\ c.pc = "done" => Len(c.reqs) = 2

\* C10: a connected syncData, uploadMatchImage or loadRemoteData emits one
\* begin before its first request and, once its requests are answered, one
\* end after the last; never two ends, never an end without a begin, also
\* when save or disconnect runs while it is suspended.
C10_OneBeginOneEnd ==
    \A i \in Slots :
        LET c == calls[i] IN
        (c.kind \in SyncKinds /\ ConnectedAtCall(c)) =>
            /\ Len(c.events) >= 1 /\ c.events[1].ev = "begin"
            /\ Cardinality(Begins(c)) = 1
            /\ Cardinality(Ends(c)) <= 1
            /\ c.pc = "done" => Cardinality(Ends(c)) = 1
            /\ c.pc # "done" => Cardinality(Ends(c)) = 0

\* the store accepted the write of invocation c
WriteAccepted(c) ==
    /\ Len(c.resps) = 2
    /\ c.resps[2].status >= 200 /\ c.resps[2].status <= 299

\* C11: uploadMatchImage returns a URL iff the store accepted the write of
\* the asset; the URL is built from the owner, repo, branch and path the
\* write was addressed to; otherwise it returns null, also when save or
\* disconnect runs while the upload is in flight.
C11_UrlIffWriteAccepted ==
    \A i \in Slots :
        LET c == calls[i] IN
        (c.kind = "uploadMatchImage" /\ ConnectedAtCall(c) /\ c.pc = "done") =>
            /\ c.ret.type = "url" <=> WriteAccepted(c)
            /\ c.ret.type = "url" => c.ret.url = ReqFile(c.reqs[2])
            /\ ~WriteAccepted(c) => c.ret = RetNull

\* C12: on a connected config, loadRemoteData whose read is answered 404
\* returns null and ends with one notification of outcome ok.
C12_NotFoundIsSuccess ==
    \A i \in Slots :
        LET c == calls[i] IN
        (/\ c.kind = "loadRemoteData" /\ ConnectedAtCall(c)
         /\ Len(c.resps) = 1 /\ c.resps[1].status = 404) =>
            /\ c.pc = "done" /\ ~c.threw
            /\ c.ret = RetNull
            /\ Len(c.events) = 2
            /\ c.events[1].ev = "begin"
            /\ c.events[2].ev = "end" /\ c.events[2].outcome = "ok"

\* a loadRemoteData on a connected config was answered 404 and returned
C12_Witness ==
    \E i \in Slots :
        /\ calls[i].kind = "loadRemoteData" /\ calls[i].pc = "done"
        /\ Len(calls[i].resps) = 1 /\ calls[i].resps[1].status = 404
        /\ calls[i].reqs[1].path = DataPath

\* C13: a loadRemoteData whose read is answered with an authentication
\* failure (401) reports a failure, not the success it reports for 404.
C13_AuthFailureIsReported ==
    \A i \in Slots :
        LET c == calls[i] IN
        (/\ c.kind = "loadRemoteData"
         /\ Len(c.resps) = 1 /\ c.resps[1].status = 401) =>
            /\ Ends(c) # {}
            /\ \A k \in Ends(c) : c.events[k].outcome = "error"

\* C14: loadRemoteData returns a snapshot only when the read succeeded and
\* the content decoded to a payload of the expected shape; when decoding
\* fails or the decoded value is JSON null or not an object, it ends with
\* an error notification and returns null.
C14_OnlyUsableSnapshots ==
    \A i \in Slots :
        LET c == calls[i] IN
        (c.kind = "loadRemoteData" /\ c.pc = "done" /\ Len(c.resps) = 1) =>
            /\ c.ret.type = "data" =>
                  (c.resps[1].status = 200 /\ c.resps[1].body = "snapshot")
            /\ (c.resps[1].status = 200 /\ c.resps[1].body # "snapshot") =>
                  /\ c.ret = RetNull
                  /\ \A k \in Ends(c) : c.events[k].outcome = "error"

\* what testConnection is to return for status st, with okMsg the message
\* of a 200 answer
Classified(st, okMsg) ==
    CASE st = 0 -> RetTest(FALSE, "Network error")
      [] st = 200 -> RetTest(TRUE, okMsg)
      [] st = 401 -> RetTest(FALSE, "Invalid token")
      [] st = 404 -> RetTest(FALSE, "Repo not found")
      [] OTHER -> RetTest(FALSE, "Error " \o ToString(st))

\* C15 as stated: 200 -> ok "Connected"; 401 -> not ok "Invalid token";
\* 404 -> not ok "Repo not found"; another status -> not ok with a
\* status-coded message; a network error -> not ok "Network error".
C15_ClassifiesAsStated ==
    \A i \in Slots :
        LET c == calls[i] IN
        (c.kind = "testConnection" /\ ConnectedAtCall(c) /\ c.pc = "done") =>
            c.ret = Classified(c.resps[1].status, "Connected")

\* C15, amended: the same classification, the message of a 200 answer
\* being "Connected!".
C15_Classifies ==
    \A i \in Slots :
        LET c == calls[i] IN
        (c.kind = "testConnection" /\ ConnectedAtCall(c) /\ c.pc = "done") =>
            /\ ~c.threw /\ Len(c.resps) = 1
            /\ c.ret = Classified(c.resps[1].status, "Connected!")

\* a testConnection was answered 401 and returned "Invalid token"
C15_Witness ==
    \E i \in Slots :
        /\ calls[i].kind = "testConnection" /\ calls[i].pc = "done"
        /\ Len(calls[i].resps) = 1 /\ calls[i].resps[1].status = 401
        /\ calls[i].ret.msg = "Invalid token"

\* C16: a step of testConnection, syncData, uploadMatchImage,
\* loadRemoteData, commitFile or getFileSHA leaves the in-memory config
\* and the stored entry unchanged; testConnection issues no write, emits
\* no status event and leaves the remote store and the sync bar alone.
C16_OperationsLeaveConfigAlone ==
    [][ calls' # calls =>
          /\ config' = config
          /\ storage' = storage
          /\ \A i \in Slots :
                calls'[i].kind = "testConnection" =>
                    /\ calls'[i].events = <<>>
                    /\ \A k \in DOMAIN calls'[i].reqs : calls'[i].reqs[k].method # "PUT"
                    /\ calls'[i] # calls[i] =>
                          (store' = store /\ bar' = bar /\ timers' = timers)
      ]_vars

\* a testConnection ran to its end on a stored, connected config that is
\* still in place
C16_Witness ==
    \E i \in Slots :
        /\ calls[i].kind = "testConnection" /\ calls[i].pc = "done"
        /\ Len(calls[i].resps) = 1
        /\ ~config.null /\ config = calls[i].cfg0
        /\ storage = Entry(JSONstringify(config))

\* the answer r to the revision-tag read is "not found" or a failure: a
\* network error, a status other than 200, or a body without a tag
LookupFailed(r) ==
    r.status # 200 \/ r.body = "badjson" \/ r.tag = 0

\* C17: getFileSHA returns null on "not found" and on every other failure
\* of the read, and in all these cases commitFile goes on to issue the
\* write, without a revision tag.
C17_LookupFailureMeansCreate ==
    \A i \in Slots :
        LET c == calls[i] IN
        (/\ c.kind \in CommitKinds \cup {"getFileSHA"}
         /\ Len(c.resps) >= 1 /\ LookupFailed(c.resps[1])) =>
            /\ c.sha = 0
            /\ c.kind = "getFileSHA" => (c.pc = "done" /\ c.ret = RetNull)
            /\ c.kind \in CommitKinds =>
                  /\ Len(c.reqs) = 2
                  /\ c.reqs[2].method = "PUT" /\ ~c.reqs[2].hasTag

\* C18: in one commitFile invocation the read and the write are addressed
\* to the same owner, repo, branch and path with the same token, and a
\* save or disconnect during the read does not make the invocation fail.
C18_ReadAndWriteSameTarget ==
    \A i \in Slots :
        LET c == calls[i] IN
        (c.kind \in CommitKinds /\ ConnectedAtCall(c)) =>
            /\ Len(c.reqs) = 2 =>
                  /\ ReqFile(c.reqs[2]) = ReqFile(c.reqs[1])
                  /\ c.reqs[2].token = c.reqs[1].token
            /\ Len(c.resps) >= 1 => (Len(c.reqs) = 2 /\ ~c.threw)

\* C19: after any sequence of save, load and disconnect calls, completed
\* or thrown, the in-memory config is what the stored entry holds: absent
\* when the entry holds no config, else the entry is its serialization.
C19_ConfigMatchesStorage ==
    lastOp.name # "none" =>
        IF ~storage.present \/ storage.raw = <<>> \/ storage.raw = << NullTok >>
        THEN config.null
        ELSE ~config.null /\ storage.raw = JSONstringify(config)

\* C20: while a sync operation is in flight, after its begin and before
\* its end, the sync bar is visible and active; a timer armed by an
\* earlier operation does not hide it.
C20_BarVisibleWhileInFlight ==
    \A i \in Slots :
        LET c == calls[i] IN
        (c.kind \in SyncKinds /\ ConnectedAtCall(c) /\ c.pc # "done") =>
            ("hidden" \notin bar /\ "sync-active" \in bar)

====
